---- MODULE Spec2Model ----
(***************************************************************************)
(* Model of the CleanSpeak client (src/index.js, first variant, lines      *)
(* 1-489): constructor, the public operations, the side-store helpers and  *)
(* the two response converters.                                            *)
(*                                                                         *)
(* JavaScript values are tagged records.  A JavaScript string is a         *)
(* sequence of lexemes (punctuation, a run of digits, a run of other       *)
(* characters), so that JSON.stringify and JSON.parse are computed, not    *)
(* assumed.  An object is an ordered sequence of <<key, value>> pairs.     *)
(***************************************************************************)
EXTENDS Integers, Sequences, FiniteSets, TLC

(* ------------------------------ bounds --------------------------------- *)
\* number of distinct clock readings new Date().valueOf() can return
MaxNow == 2
\* number of distinct uuids callers pass in
MaxIds == 1

(* --------------------------- JavaScript values ------------------------- *)
Undef == [t |-> "undefined"]
Null == [t |-> "null"]
Bool(b) == [t |-> "bool", b |-> b]
Num(n) == [t |-> "num", n |-> n]
Str(s) == [t |-> "str", s |-> s]
DateOf(ms) == [t |-> "date", ms |-> ms]
Obj(f) == [t |-> "obj", f |-> f]
Arr(a) == [t |-> "arr", a |-> a]
Fn == [t |-> "function"]

\* lexemes of a string
P(c) == [k |-> "punct", c |-> c]
N(n) == [k |-> "digits", n |-> n]
C(s) == [k |-> "chars", c |-> s]
Iso(ms) == [k |-> "isodate", n |-> ms]

\* a string literal of one run of characters; the empty string
S(s) == Str(<<C(s)>>)
EmptyStr == Str(<<>>)

\* ToBoolean
Truthy(v) ==
  CASE v.t = "undefined" -> FALSE
    [] v.t = "null" -> FALSE
    [] v.t = "bool" -> v.b
    [] v.t = "num" -> v.n # 0
    [] v.t = "str" -> v.s # <<>>
    [] OTHER -> TRUE

\* o[k] on an object: the property's value, undefined when absent
\* (a property of a number, a string or an array that the client reads is
\* never one of their own, so it reads as undefined)
Has(o, k) == o.t = "obj" /\ \E i \in 1..Len(o.f) : o.f[i][1] = k
Get(o, k) ==
  IF Has(o, k)
  THEN o.f[CHOOSE i \in 1..Len(o.f) : o.f[i][1] = k][2]
  ELSE Undef

\* reading a property of undefined or null raises a TypeError
CanRead(v) == v.t \notin {"undefined", "null"}

\* ToString, as used by string concatenation ('/path/' + x)
ToStr(v) ==
  CASE v.t = "undefined" -> <<C("undefined")>>
    [] v.t = "null" -> <<C("null")>>
    [] v.t = "bool" -> <<C(IF v.b THEN "true" ELSE "false")>>
    [] v.t = "num" -> <<N(v.n)>>
    [] v.t = "str" -> v.s
    [] v.t = "date" -> <<Iso(v.ms)>>
    [] OTHER -> <<C("[object Object]")>>

(* ------------------------------- JSON ---------------------------------- *)
Quote == P("\"")
EscQuote == P("\\\"")

\* the characters of a string as they stand between the quotes of a literal
RECURSIVE Escape(_)
Escape(s) ==
  IF s = <<>> THEN <<>>
  ELSE <<(IF Head(s) = Quote THEN EscQuote ELSE Head(s))>> \o Escape(Tail(s))

RECURSIVE Unescape(_)
Unescape(s) ==
  IF s = <<>> THEN <<>>
  ELSE <<(IF Head(s) = EscQuote THEN Quote ELSE Head(s))>> \o Unescape(Tail(s))

\* JSON.stringify's result is undefined for these values; as an object
\* property they are left out, as an array element they become null
Unserializable(v) == v.t \in {"undefined", "function"}

RECURSIVE Serialize(_)
RECURSIVE SerializeMembers(_, _)
RECURSIVE SerializeElements(_, _)
Serialize(v) ==
  CASE v.t = "null" -> <<C("null")>>
    [] v.t = "bool" -> <<C(IF v.b THEN "true" ELSE "false")>>
    [] v.t = "num" -> <<N(v.n)>>
    [] v.t = "str" -> <<Quote>> \o Escape(v.s) \o <<Quote>>
    [] v.t = "date" -> <<Quote, Iso(v.ms), Quote>>
    [] v.t = "obj" -> <<P("{")>> \o SerializeMembers(v.f, TRUE) \o <<P("}")>>
    [] v.t = "arr" -> <<P("[")>> \o SerializeElements(v.a, TRUE) \o <<P("]")>>
    [] OTHER -> <<>>
SerializeMembers(f, first) ==
  IF f = <<>> THEN <<>>
  ELSE IF Unserializable(Head(f)[2]) THEN SerializeMembers(Tail(f), first)
  ELSE (IF first THEN <<>> ELSE <<P(",")>>)
       \o <<Quote, C(Head(f)[1]), Quote, P(":")>>
       \o Serialize(Head(f)[2])
       \o SerializeMembers(Tail(f), FALSE)
SerializeElements(a, first) ==
  IF a = <<>> THEN <<>>
  ELSE (IF first THEN <<>> ELSE <<P(",")>>)
       \o (IF Unserializable(Head(a)) THEN <<C("null")>> ELSE Serialize(Head(a)))
       \o SerializeElements(Tail(a), FALSE)

\* JSON.stringify(value)
JSON_stringify(v) == IF Unserializable(v) THEN Undef ELSE Str(Serialize(v))

\* Recursive-descent reading of one JSON value from the front of a lexeme
\* sequence: [ok, v, rest]
Fail == [ok |-> FALSE]
Ok(v, rest) == [ok |-> TRUE, v |-> v, rest |-> rest]

\* index of the closing quote of a string literal whose opening quote has
\* been consumed; 0 when the literal is not closed
ClosingQuote(s) ==
  IF \E i \in 1..Len(s) : s[i] = Quote
  THEN CHOOSE i \in 1..Len(s) : s[i] = Quote /\ \A j \in 1..(i - 1) : s[j] # Quote
  ELSE 0

RECURSIVE ParseValue(_)
RECURSIVE ParseMembers(_, _)
RECURSIVE ParseElements(_, _)
ParseValue(s) ==
  IF s = <<>> THEN Fail
  ELSE LET h == Head(s)
           r == Tail(s)
       IN CASE h = Quote ->
                 LET q == ClosingQuote(r)
                 IN IF q = 0 THEN Fail
                    ELSE Ok(Str(Unescape(SubSeq(r, 1, q - 1))), SubSeq(r, q + 1, Len(r)))
            [] h = P("{") ->
                 IF r # <<>> /\ Head(r) = P("}") THEN Ok(Obj(<<>>), Tail(r))
                 ELSE ParseMembers(r, <<>>)
            [] h = P("[") ->
                 IF r # <<>> /\ Head(r) = P("]") THEN Ok(Arr(<<>>), Tail(r))
                 ELSE ParseElements(r, <<>>)
            [] h.k = "digits" -> Ok(Num(h.n), r)
            [] h = C("null") -> Ok(Null, r)
            [] h = C("true") -> Ok(Bool(TRUE), r)
            [] h = C("false") -> Ok(Bool(FALSE), r)
            [] OTHER -> Fail
\* s stands just before a member's key; acc holds the members read so far
ParseMembers(s, acc) ==
  IF Len(s) < 5 THEN Fail
  ELSE IF ~(s[1] = Quote /\ s[2].k = "chars" /\ s[3] = Quote /\ s[4] = P(":")) THEN Fail
  ELSE LET pv == ParseValue(SubSeq(s, 5, Len(s)))
       IN IF ~pv.ok THEN Fail
          ELSE IF pv.rest = <<>> THEN Fail
          ELSE LET acc2 == Append(acc, <<s[2].c, pv.v>>)
               IN IF Head(pv.rest) = P("}") THEN Ok(Obj(acc2), Tail(pv.rest))
                  ELSE IF Head(pv.rest) = P(",") THEN ParseMembers(Tail(pv.rest), acc2)
                  ELSE Fail
ParseElements(s, acc) ==
  LET pv == ParseValue(s)
  IN IF ~pv.ok THEN Fail
     ELSE IF pv.rest = <<>> THEN Fail
     ELSE LET acc2 == Append(acc, pv.v)
          IN IF Head(pv.rest) = P("]") THEN Ok(Arr(acc2), Tail(pv.rest))
             ELSE IF Head(pv.rest) = P(",") THEN ParseElements(Tail(pv.rest), acc2)
             ELSE Fail

\* JSON.parse(text): the argument is converted to a string first; a text
\* that is not one JSON value raises a SyntaxError (ok = FALSE)
SyntaxError == S("SyntaxError")
TypeError == S("TypeError")
JSON_parse(text) ==
  LET pv == ParseValue(ToStr(text))
  IN IF pv.ok /\ pv.rest = <<>> THEN [ok |-> TRUE, v |-> pv.v] ELSE [ok |-> FALSE]

(* ------------------------------ inputs --------------------------------- *)
Ids == {Str(<<C("id-"), N(i)>>) : i \in 1..MaxIds}
Host == S("http://cleanspeak.example.com:8001")
AuthToken == S("abc123")
TransportError == Obj(<<<<"code", S("ECONNREFUSED")>>>>)

\* an object literal holding only the properties the caller wrote: a pair
\* whose value is Absent is left out
Absent == [t |-> "absent"]
RECURSIVE Literal(_)
Literal(f) ==
  IF f = <<>> THEN <<>>
  ELSE (IF Head(f)[2] = Absent THEN <<>> ELSE <<Head(f)>>) \o Literal(Tail(f))
Lit(f) == Obj(Literal(f))

\* options handed to the constructor
QueueChoices ==
  { <<q, qo>> \in {Absent, Obj(<<>>)}
                 \X {Absent, Obj(<< <<"attempts", Num(10)>>, <<"priority", S("high")>> >>)} :
      q # Absent \/ qo = Absent }
CtorOpts ==
  { Lit(<< <<"host", Host>>, <<"authToken", AuthToken>>,
           <<"databaseUrl", S("postgres://db")>>,
           <<"notificationHost", S("http://api.example.com")>>,
           <<"notificationUsername", S("user")>>,
           <<"notificationPassword", S("pass")>>,
           <<"enabled", e>>, <<"queue", qc[1]>>, <<"queueOpts", qc[2]>> >>) :
      e \in {Absent, Bool(TRUE), Bool(FALSE)}, qc \in QueueChoices }

(* ---------------------------- constructor ------------------------------ *)
\* typeof v
TypeOf(v) ==
  CASE v.t = "undefined" -> "undefined"
    [] v.t = "bool" -> "boolean"
    [] v.t = "num" -> "number"
    [] v.t = "str" -> "string"
    [] v.t = "function" -> "function"
    [] OTHER -> "object"

\* enabled copied from the options as it is
CleanSpeak_enabledCopied(opts) ==
  Obj(<< <<"host", Get(opts, "host")>>,
         <<"authToken", Get(opts, "authToken")>>,
         <<"databaseUrl", Get(opts, "databaseUrl")>>,
         <<"notificationHost", Get(opts, "notificationHost")>>,
         <<"notificationUsername", Get(opts, "notificationUsername")>>,
         <<"notificationPassword", Get(opts, "notificationPassword")>>,
         <<"enabled", Get(opts, "enabled")>> >>)

CleanSpeak(opts) ==
  Obj(<< <<"host", Get(opts, "host")>>,
         <<"authToken", Get(opts, "authToken")>>,
         <<"databaseUrl", Get(opts, "databaseUrl")>>,
         <<"notificationHost", Get(opts, "notificationHost")>>,
         <<"notificationUsername", Get(opts, "notificationUsername")>>,
         <<"notificationPassword", Get(opts, "notificationPassword")>>,
         <<"enabled", IF TypeOf(Get(opts, "enabled")) # "undefined"
                      THEN Get(opts, "enabled") ELSE Bool(TRUE)>> >>)

(* ------------------------------- state --------------------------------- *)
VARIABLES
  ctorOpts,    \* the options the client was constructed with
  self,        \* the client object (this)
  now,         \* the reading of new Date().valueOf()
  op,          \* the public operation in progress or last run
  args,        \* its arguments: [a, b, opts]
  pc,          \* "idle", "http", "connect", "query1", "query2", "query", "save", "done"
  requests,    \* HTTP requests issued by the call
  callbacks,   \* invocations of the caller's callback: the argument lists
  jobs,        \* jobs handed to the queue by the call
  store,       \* side-store events of the call
  local,       \* variables captured by the pending continuation
  received,    \* what the continuations were handed: [err, response] by the
               \* transport, storeErr by the side-store
  thrown       \* the exception that escaped the call, Undef if none

vars == <<ctorOpts, self, now, op, args, pc, requests, callbacks, jobs, store, local, received, thrown>>

Init ==
  /\ ctorOpts \in CtorOpts
  /\ self = CleanSpeak(ctorOpts)
  /\ now = 1
  /\ op = "none"
  /\ args = [a |-> Undef, b |-> Undef, opts |-> Undef]
  /\ pc = "idle"
  /\ requests = <<>>
  /\ callbacks = <<>>
  /\ jobs = <<>>
  /\ store = <<>>
  /\ local = Undef
  /\ received = [err |-> Undef, response |-> Undef, storeErr |-> Undef]
  /\ thrown = Undef

(* ------------------------------ helpers -------------------------------- *)
\* url.resolve(from, to) for a base that is an origin and an absolute path;
\* an argument that is not a string raises a TypeError (ok = FALSE)
url_resolve(from, to) ==
  IF from.t = "str" /\ to.t = "str"
  THEN [ok |-> TRUE, v |-> Str(from.s \o to.s)]
  ELSE [ok |-> FALSE]

\* a + b on a string and any value
Concat(a, b) == Str(ToStr(a) \o ToStr(b))

\* the optional-options shuffle at the head of the public operations:
\* if (typeof opts === 'function') { callback = opts; opts = {}; }
ResolveOpts(opts) == IF TypeOf(opts) = "function" THEN Obj(<<>>) ELSE opts

\* the gate left out: every call goes on to its I/O
Disabled_gateMissing == FALSE

\* if (!this.enabled) return callback(...): the gate at the head of the
\* public operations
Disabled == ~Truthy(Get(self, "enabled"))

\* the update flag ignored
method_alwaysPost(opts) == "POST"

\* var method = opts.update ? 'PUT' : 'POST';
method(opts) == IF Truthy(Get(opts, "update")) THEN "PUT" ELSE "POST"

\* the two tests in the other order
queueOption_approvalFirst(opts) ==
  IF Truthy(Get(opts, "requiresApproval")) THEN S("requiresApproval")
  ELSE IF Truthy(Get(opts, "generatesAlert")) THEN S("generatesAlert")
  ELSE Null

\* the moderation queue the content is sent to
queueOption(opts) ==
  IF Truthy(Get(opts, "generatesAlert")) THEN S("generatesAlert")
  ELSE IF Truthy(Get(opts, "requiresApproval")) THEN S("requiresApproval")
  ELSE Null

\* headers of the JSON-bodied requests
\* the token left out of the headers
JsonHeaders_noToken == Obj(<< <<"Content-Type", S("application/json")>> >>)

\* headers = {Authentication: this.authToken, 'Content-Type': 'application/json'}
JsonHeaders ==
  Obj(<< <<"Authentication", Get(self, "authToken")>>,
         <<"Content-Type", S("application/json")>> >>)

\* the matches field never looked at
_convertFilterResponse_neverFiltered(body) ==
  LET jsonData == JSON_parse(body)
  IN IF ~jsonData.ok THEN [ok |-> FALSE, e |-> SyntaxError]
     ELSE IF ~CanRead(jsonData.v) THEN [ok |-> FALSE, e |-> TypeError]
     ELSE [ok |-> TRUE, v |-> Obj(<< <<"filtered", Bool(FALSE)>>,
                                     <<"replacement", Get(jsonData.v, "replacement")>> >>)]

_convertFilterResponse(body) ==
  LET jsonData == JSON_parse(body)
  IN IF ~jsonData.ok THEN [ok |-> FALSE, e |-> SyntaxError]
     ELSE IF ~CanRead(jsonData.v) THEN [ok |-> FALSE, e |-> TypeError]
     ELSE IF Truthy(Get(jsonData.v, "matches"))
     THEN [ok |-> TRUE, v |-> Obj(<< <<"filtered", Bool(TRUE)>>,
                                     <<"replacement", Get(jsonData.v, "replacement")>> >>)]
     ELSE [ok |-> TRUE, v |-> Obj(<< <<"filtered", Bool(FALSE)>>,
                                     <<"replacement", Get(jsonData.v, "replacement")>> >>)]

\* the catch returning nothing
_convertErrors_catchEmpty(response) ==
  LET jsonData == JSON_parse(Get(response, "body"))
  IN IF jsonData.ok
     THEN JSON_stringify(Obj(<< <<"statusCode", Get(response, "statusCode")>>,
                                <<"message", jsonData.v>> >>))
     ELSE Undef

\* try { JSON.parse(response.body) ... } catch(e) { ... message: response.body }
_convertErrors(response) ==
  LET jsonData == JSON_parse(Get(response, "body"))
  IN IF jsonData.ok
     THEN JSON_stringify(Obj(<< <<"statusCode", Get(response, "statusCode")>>,
                                <<"message", jsonData.v>> >>))
     ELSE JSON_stringify(Obj(<< <<"statusCode", Get(response, "statusCode")>>,
                                <<"message", Get(response, "body")>> >>))

(* ---------------------- effects shared by the steps -------------------- *)
\* A public operation starts,
Begin(name, a, b, opts) ==
  /\ pc = "idle"
  /\ op' = name
  /\ args' = [a |-> a, b |-> b, opts |-> opts]
  /\ jobs' = <<>>
  /\ store' = <<>>
  /\ local' = Undef
  /\ UNCHANGED <<ctorOpts, self, now, received>>

\* and ends its first step with callback(a1, ..., an),
BeginCall(cbArgs) ==
  /\ requests' = <<>>
  /\ callbacks' = <<cbArgs>>
  /\ pc' = "done"
  /\ thrown' = Undef

\* ... or with an exception,
BeginThrow(e) ==
  /\ requests' = <<>>
  /\ callbacks' = <<>>
  /\ pc' = "done"
  /\ thrown' = e

\* the request sent a second time
BeginRequest_repeated(verb, uri, headers, body) ==
  /\ requests' = <<[method |-> verb, uri |-> uri, headers |-> headers, body |-> body],
                   [method |-> verb, uri |-> uri, headers |-> headers, body |-> body]>>
  /\ callbacks' = <<>>
  /\ pc' = "http"
  /\ thrown' = Undef

\* ... or with one HTTP request sent and its continuation pending.
BeginRequest(verb, uri, headers, body) ==
  /\ requests' = <<[method |-> verb, uri |-> uri, headers |-> headers, body |-> body]>>
  /\ callbacks' = <<>>
  /\ pc' = "http"
  /\ thrown' = Undef

\* The continuation of the HTTP request of operation name runs with
\* (err, response).
Resume(name, err, response) ==
  /\ op = name
  /\ pc = "http"
  /\ received' = [err |-> err, response |-> response, storeErr |-> Undef]
  /\ UNCHANGED <<ctorOpts, self, now, op, args, requests, jobs>>

\* A later step ends with callback(a1, ..., an), or with an exception.
Call(cbArgs) ==
  /\ callbacks' = Append(callbacks, cbArgs)
  /\ pc' = "done"
  /\ thrown' = Undef

Throw(e) ==
  /\ callbacks' = callbacks
  /\ pc' = "done"
  /\ thrown' = e

\* What the transport hands to a continuation: (err) or (null, response);
\* response.body is the text of the reply.
Response(statusCode, body) ==
  Obj(<< <<"statusCode", Num(statusCode)>>, <<"body", body>> >>)

\* the transport's error run through the normalization
OnResponse_errorNormalized(err, response, rest) ==
  IF Truthy(err)
  THEN Call(<<_convertErrors(Obj(<< <<"statusCode", Undef>>, <<"body", err>> >>))>>)
       /\ UNCHANGED <<store, local>>
  ELSE IF Get(response, "statusCode") # Num(200)
  THEN Call(<<_convertErrors(response)>>) /\ UNCHANGED <<store, local>>
  ELSE rest

\* the status of the reply never looked at
OnResponse_statusIgnored(err, response, rest) ==
  IF Truthy(err) THEN Call(<<err>>) /\ UNCHANGED <<store, local>> ELSE rest

\* if (err) return callback(err);
\* if (response.statusCode !== 200) return callback(that._convertErrors(response));
\* shared head of the continuations; otherwise the step goes on with rest
OnResponse(err, response, rest) ==
  IF Truthy(err) THEN Call(<<err>>) /\ UNCHANGED <<store, local>>
  ELSE IF Get(response, "statusCode") # Num(200)
  THEN Call(<<_convertErrors(response)>>) /\ UNCHANGED <<store, local>>
  ELSE rest

(* ------------------------------- filter -------------------------------- *)
filter(content, opts0) ==
  LET opts == ResolveOpts(opts0)
      headers == JsonHeaders
      body == Obj(<< <<"content", content>> >>)
      uri == url_resolve(Get(self, "host"), S("/content/item/filter"))
  IN /\ Begin("filter", content, Undef, opts)
     /\ IF Disabled
        THEN BeginCall(<<Null, Obj(<< <<"filtered", Bool(FALSE)>>,
                                     <<"replacement", content>> >>)>>)
        ELSE IF ~uri.ok THEN BeginThrow(TypeError)
        ELSE BeginRequest("POST", uri.v, headers, JSON_stringify(body))

filter_response(err, response) ==
  /\ Resume("filter", err, response)
  /\ OnResponse(err, response,
       LET r == _convertFilterResponse(Get(response, "body"))
       IN /\ IF r.ok THEN Call(<<Null, r.v>>) ELSE Throw(r.e)
          /\ UNCHANGED <<store, local>>)

(* ------------------------------ moderate ------------------------------- *)
\* this._addQueue is not defined in this file: the call made when
\* this.ironClient is set hands (name, data) to the queue and leaves the
\* callback to the queue's save step
_addQueue(name, data) ==
  /\ requests' = <<>>
  /\ callbacks' = <<>>
  /\ jobs' = <<[name |-> name, data |-> data]>>
  /\ pc' = "save"
  /\ thrown' = Undef

moderate(content, opts0) ==
  LET opts == ResolveOpts(opts0)
      headers == JsonHeaders
      body == Obj(<< <<"content", Obj(<< <<"applicationId", Get(opts, "applicationId")>>,
                                        <<"createInstant", Num(now)>>,
                                        <<"parts", content>>,
                                        <<"senderId", Get(opts, "senderId")>>,
                                        <<"senderDisplayName", Get(opts, "senderDisplayName")>> >>)>>,
                     <<"moderation", queueOption(opts)>> >>)
      uri == url_resolve(Get(self, "host"),
                         Concat(S("/content/item/moderate/"), Get(opts, "contentId")))
  IN /\ pc = "idle"
     /\ op' = "moderate"
     /\ args' = [a |-> content, b |-> Undef, opts |-> opts]
     /\ store' = <<>>
     /\ local' = Undef
     /\ UNCHANGED <<ctorOpts, self, now, received>>
     /\ IF Disabled
        THEN BeginCall(<<Null>>) /\ jobs' = <<>>
        ELSE IF Truthy(Get(self, "ironClient"))
        THEN _addQueue("moderate", Obj(<< <<"content", content>>, <<"opts", opts>> >>))
        ELSE /\ jobs' = <<>>
             /\ IF ~uri.ok THEN BeginThrow(TypeError)
                ELSE BeginRequest(method(opts), uri.v, headers, JSON_stringify(body))

moderate_response(err, response) ==
  /\ Resume("moderate", err, response)
  /\ OnResponse(err, response, Call(<<Null>>) /\ UNCHANGED <<store, local>>)

(* ----------------------------- flagContent ----------------------------- *)
\* reason and comment never copied into the flag
flagBody_bare(reporterId, opts, createInstant) ==
  Obj(<< <<"flag", Obj(<< <<"reporterId", reporterId>>, <<"createInstant", createInstant>> >>)>> >>)

\* body = {flag: {reporterId: reporterId, createInstant: new Date().valueOf()}};
\* if (opts.reason) body.flag.reason = opts.reason;
\* if (opts.comment) body.flag.comment = opts.comment;
flagBody(reporterId, opts, createInstant) ==
  LET flag == << <<"reporterId", reporterId>>, <<"createInstant", createInstant>> >>
              \o (IF Truthy(Get(opts, "reason")) THEN << <<"reason", Get(opts, "reason")>> >> ELSE <<>>)
              \o (IF Truthy(Get(opts, "comment")) THEN << <<"comment", Get(opts, "comment")>> >> ELSE <<>>)
  IN Obj(<< <<"flag", Obj(flag)>> >>)

flagContent(contentId, reporterId, opts0) ==
  LET opts == ResolveOpts(opts0)
      headers == JsonHeaders
      body == flagBody(reporterId, opts, Num(now))
      uri == url_resolve(Get(self, "host"), Concat(S("/content/item/flag/"), contentId))
  IN /\ Begin("flagContent", contentId, reporterId, opts)
     /\ IF Disabled THEN BeginCall(<<Null>>)
        ELSE IF ~uri.ok THEN BeginThrow(TypeError)
        ELSE BeginRequest("POST", uri.v, headers, JSON_stringify(body))

flagContent_response(err, response) ==
  /\ Resume("flagContent", err, response)
  /\ OnResponse(err, response, Call(<<Null>>) /\ UNCHANGED <<store, local>>)

(* ------------------------------- addUser ------------------------------- *)
\* o with property k set to v (in place when o has k)
Set(o, k, v) ==
  IF Has(o, k)
  THEN Obj([i \in 1..Len(o.f) |-> IF o.f[i][1] = k THEN <<k, v>> ELSE o.f[i]])
  ELSE Obj(Append(o.f, <<k, v>>))

\* _.pick(object, function(value) { return !!value; })
RECURSIVE PickTruthy(_)
PickTruthy(f) ==
  IF f = <<>> THEN <<>>
  ELSE (IF Truthy(Head(f)[2]) THEN <<Head(f)>> ELSE <<>>) \o PickTruthy(Tail(f))

\* only the keys whose value is truthy picked
PickKeys_truthyOnly(o, keys) ==
  PickTruthy([i \in 1..Len(keys) |-> <<keys[i], Get(o, keys[i])>>])

\* _.pick(object, [key, ...])
RECURSIVE PickKeys(_, _)
PickKeys(o, keys) ==
  IF keys = <<>> THEN <<>>
  ELSE (IF Has(o, Head(keys)) THEN << <<Head(keys), Get(o, Head(keys))>> >> ELSE <<>>)
       \o PickKeys(o, Tail(keys))

\* the date left as it was given
lastLoginInstant_unconverted(opts) == opts

\* if (opts.lastLoginInstant instanceof Date)
\*   opts.lastLoginInstant = opts.lastLoginInstant.valueOf();
lastLoginInstant(opts) ==
  IF Get(opts, "lastLoginInstant").t = "date"
  THEN Set(opts, "lastLoginInstant", Num(Get(opts, "lastLoginInstant").ms))
  ELSE opts

\* body = {user: _.pick({...}, function(value) { return !!value; })}
userBody(opts, createInstant) ==
  LET userOpts == Obj(PickTruthy(<< <<"applicationIds", Get(opts, "applicationIds")>>,
                                    <<"attributes", Get(opts, "attributes")>>,
                                    <<"displayNames", Get(opts, "displayNames")>>,
                                    <<"createInstant", createInstant>>,
                                    <<"birthDate", Get(opts, "birthDate")>>,
                                    <<"email", Get(opts, "email")>>,
                                    <<"lastLoginInstant", Get(opts, "lastLoginInstant")>>,
                                    <<"name", Get(opts, "name")>>,
                                    <<"imageURL", Get(opts, "imageURL")>> >>))
  IN Obj(<< <<"user", userOpts>> >>)

addUser(userId, opts0) ==
  LET opts1 == ResolveOpts(opts0)
      opts == lastLoginInstant(opts1)
      headers == JsonHeaders
      body == userBody(opts, Num(now))
      uri == url_resolve(Get(self, "host"), Concat(S("/content/user/"), userId))
  IN /\ Begin("addUser", userId, Undef, IF Disabled THEN opts1 ELSE opts)
     /\ IF Disabled THEN BeginCall(<<Null>>)
        ELSE IF ~uri.ok THEN BeginThrow(TypeError)
        ELSE BeginRequest(method(opts), uri.v, headers, JSON_stringify(body))

addUser_response(err, response) ==
  /\ Resume("addUser", err, response)
  /\ IF Truthy(err) THEN Call(<<err>>) ELSE Call(<<Null>>)
  /\ UNCHANGED <<store, local>>

(* --------------------------- side-store helpers ------------------------ *)
ModerationKeys ==
  <<"contentDeletable", "contentEditable", "contentUserActionsEnabled",
    "defaultActionIsQueueForApproval", "persistent", "storeContent">>

\* pg.connect(this.databaseUrl, ...): the continuation is pending
Connect ==
  /\ store' = Append(store, [ev |-> "connect", what |-> Get(self, "databaseUrl")])
  /\ pc' = "connect"
  /\ callbacks' = callbacks
  /\ thrown' = Undef

\* client.query(query, params, ...): the continuation is pending
Query(next, query, params) ==
  /\ store' = Append(store, [ev |-> "query", what |-> Obj(<< <<"query", S(query)>>, <<"params", Arr(params)>> >>)])
  /\ pc' = next
  /\ callbacks' = callbacks
  /\ thrown' = Undef

\* done(): the connection goes back to the pool
Done(s) == Append(s, [ev |-> "done", what |-> Undef])

\* a continuation of the side-store runs with (err, ...)
ResumeStore(name, at, err) ==
  /\ op = name
  /\ pc = at
  /\ received' = [received EXCEPT !.storeErr = err]
  /\ UNCHANGED <<ctorOpts, self, now, op, args, requests, jobs, local>>

\* the failure of the link step dropped: the id is reported all the same
createApplication_linked_errorDropped(err) ==
  Call(<<Null, Obj(<< <<"id", local>> >>)>>)

\* the callback createApplication hands to _createNotificationServer
createApplication_linked(err) ==
  IF Truthy(err) THEN Call(<<err>>)
  ELSE Call(<<Null, Obj(<< <<"id", local>> >>)>>)

\* the callback deleteApplication hands to _deleteNotificationServer
deleteApplication_unlinked(err) ==
  IF Truthy(err) THEN Call(<<err>>) ELSE Call(<<Null>>)

_createNotificationServer_connect(err) ==
  LET uri == url_resolve(Get(self, "notificationHost"), Get(args.opts, "notificationPath"))
  IN /\ ResumeStore("createApplication", "connect", err)
     /\ IF ~uri.ok THEN Throw(TypeError) /\ store' = store
        ELSE IF ~Truthy(uri.v)
        THEN createApplication_linked(S("Error while build URI. noticationHost: ")) /\ store' = store
        ELSE IF Truthy(err)
        THEN createApplication_linked(S("error fetching client from pool")) /\ store' = store
        ELSE Query("query1", "INSERT INTO notification_servers",
                   <<uri.v, Get(self, "notificationUsername"), Get(self, "notificationPassword")>>)

_createNotificationServer_query1(err, result) ==
  /\ ResumeStore("createApplication", "query1", err)
  /\ IF Truthy(err)
     THEN createApplication_linked(err) /\ store' = Done(store)
     ELSE Query("query2", "INSERT INTO notification_servers_applications",
                <<Get(result.a[1], "id"), local>>)

_createNotificationServer_query2(err) ==
  /\ ResumeStore("createApplication", "query2", err)
  /\ store' = Done(store)
  /\ createApplication_linked(IF Truthy(err) THEN err ELSE Null)

_deleteNotificationServer_connect(err) ==
  LET uri == url_resolve(Get(self, "notificationHost"), Get(args.opts, "notificationPath"))
  IN /\ ResumeStore("deleteApplication", "connect", err)
     /\ IF ~uri.ok THEN Throw(TypeError) /\ store' = store
        ELSE IF ~Truthy(uri.v)
        THEN deleteApplication_unlinked(S("Error while build URI. noticationHost: ")) /\ store' = store
        ELSE IF Truthy(err)
        THEN deleteApplication_unlinked(S("error fetching client from pool")) /\ store' = store
        ELSE Query("query", "DELETE FROM notification_servers WHERE url = $1", <<uri.v>>)

_deleteNotificationServer_query(err) ==
  /\ ResumeStore("deleteApplication", "query", err)
  /\ store' = Done(store)
  /\ deleteApplication_unlinked(IF Truthy(err) THEN err ELSE Null)

(* -------------------------- createApplication -------------------------- *)
applicationUri_idIgnored(uri, opts) == uri

\* if (opts.id) uri += '/' + opts.id
applicationUri(uri, opts) ==
  IF Truthy(Get(opts, "id")) THEN Concat(Concat(uri, S("/")), Get(opts, "id")) ELSE uri

createApplication(name, opts0) ==
  LET opts == ResolveOpts(opts0)
      headers == JsonHeaders
      moderationOpts == Obj(PickKeys(opts, ModerationKeys))
      body == Obj(<< <<"application", Obj(<< <<"name", name>>,
                                            <<"moderationConfiguration", moderationOpts>> >>)>> >>)
      base == url_resolve(Get(self, "host"), S("/system/application"))
      uri == applicationUri(base.v, opts)
  IN /\ Begin("createApplication", name, Undef, opts)
     /\ IF Disabled THEN BeginCall(<<Null>>)
        ELSE IF ~base.ok THEN BeginThrow(TypeError)
        ELSE BeginRequest("POST", uri, headers, JSON_stringify(body))

createApplication_response(err, response) ==
  /\ Resume("createApplication", err, response)
  /\ IF Truthy(err) THEN Call(<<err>>) /\ UNCHANGED <<store, local>>
     ELSE IF Get(response, "statusCode") # Num(200)
     THEN Call(<<_convertErrors(response)>>) /\ UNCHANGED <<store, local>>
     ELSE LET parsed == JSON_parse(Get(response, "body"))
          IN IF ~parsed.ok THEN Throw(SyntaxError) /\ UNCHANGED <<store, local>>
             ELSE IF ~CanRead(parsed.v) \/ ~CanRead(Get(parsed.v, "application"))
             THEN Throw(TypeError) /\ UNCHANGED <<store, local>>
             ELSE /\ local' = Get(Get(parsed.v, "application"), "id")
                  /\ Connect

(* -------------------------- deleteApplication -------------------------- *)
notificationPathMissing_unchecked(opts) == FALSE

\* if (!opts.notificationPath)
notificationPathMissing(opts) == ~Truthy(Get(opts, "notificationPath"))

deleteApplication(id, opts) ==
  LET headers == Obj(<< <<"Authentication", Get(self, "authToken")>> >>)
      uri == url_resolve(Get(self, "host"), Concat(S("/system/application/"), id))
  IN /\ Begin("deleteApplication", id, Undef, opts)
     /\ IF Disabled THEN BeginCall(<<Null>>)
        ELSE IF notificationPathMissing(opts)
        THEN BeginCall(<<S("notificationPath is required")>>)
        ELSE IF ~uri.ok THEN BeginThrow(TypeError)
        ELSE BeginRequest("DELETE", uri.v, headers, Undef)

deleteApplication_response(err, response) ==
  /\ Resume("deleteApplication", err, response)
  /\ OnResponse(err, response, Connect /\ UNCHANGED local)

(* -------------------------- updateApplication -------------------------- *)
updateApplication(id, opts0) ==
  LET opts == ResolveOpts(opts0)
      headers == JsonHeaders
      moderationOpts == Obj(PickKeys(opts, ModerationKeys))
      body == Obj(<< <<"application", Obj(<< <<"name", Get(opts, "name")>>,
                                            <<"moderationConfiguration", moderationOpts>> >>)>> >>)
      uri == url_resolve(Get(self, "host"), Concat(S("/system/application/"), id))
  IN /\ Begin("updateApplication", id, Undef, opts)
     /\ IF Disabled THEN BeginCall(<<Null>>)
        ELSE IF ~uri.ok THEN BeginThrow(TypeError)
        ELSE BeginRequest("PUT", uri.v, headers, JSON_stringify(body))

updateApplication_response(err, response) ==
  /\ Resume("updateApplication", err, response)
  /\ OnResponse(err, response, Call(<<Null>>) /\ UNCHANGED <<store, local>>)

(* ------------------- the legacy client's filter ------------------------ *)
\* a || b
Or(a, b) == IF Truthy(a) THEN a ELSE b

\* require('../config').cleanSpeak: the defaults of the deployment
config_cleanSpeak ==
  Obj(<< <<"host", S("http://localhost")>>, <<"port", Num(8001)>>,
         <<"authToken", S("token-of-the-deployment")>> >>)

\* the options the legacy client is constructed with
LegacyOpts ==
  Lit(<< <<"host", S("http://example-cs.com")>>, <<"port", Num(8001)>>,
         <<"authToken", AuthToken>> >>)

legacy_CleanSpeak(opts) ==
  LET host == Or(Get(opts, "host"), Get(config_cleanSpeak, "host"))
      port == Or(Get(opts, "port"), Get(config_cleanSpeak, "port"))
  IN Obj(<< <<"authToken", Or(Get(opts, "authToken"), Get(config_cleanSpeak, "authToken"))>>,
            <<"host", Concat(Concat(host, S(":")), port)>> >>)

\* request's json option on the reply: the body is handed over decoded when
\* its text is JSON, as the text itself otherwise
JsonReply(text) ==
  LET parsed == JSON_parse(text) IN IF parsed.ok THEN parsed.v ELSE text

handleFilterResponse(body) ==
  Obj(<< <<"filtered", Bool(Truthy(Get(body, "matches")))>>,
         <<"replacement", Get(body, "replacement")>> >>)

\* body.generalErrors[0].message
handleErrors(body) ==
  LET generalErrors == Get(body, "generalErrors")
      first == IF generalErrors.t = "arr" /\ Len(generalErrors.a) > 0
               THEN generalErrors.a[1] ELSE Undef
  IN IF ~CanRead(generalErrors) \/ ~CanRead(first)
     THEN [ok |-> FALSE, e |-> TypeError]
     ELSE [ok |-> TRUE, v |-> Get(first, "message")]

\* request.post(uri, {json: body}, ...): no headers are handed to the request
legacy_filter(content, opts0) ==
  LET that == legacy_CleanSpeak(LegacyOpts)
      opts == ResolveOpts(opts0)
      body == Obj(<< <<"content", content>>,
                     <<"filter", Obj(<< <<"blacklist", Obj(<< <<"enabled", Bool(TRUE)>> >>)>> >>)>> >>)
      uri == url_resolve(Get(that, "host"), S("/content/item/filter"))
  IN /\ Begin("legacy_filter", content, Undef, opts)
     /\ IF ~uri.ok THEN BeginThrow(TypeError)
        ELSE BeginRequest("POST", uri.v, Undef, JSON_stringify(body))

legacy_filter_response(err, response) ==
  /\ Resume("legacy_filter", err, response)
  /\ UNCHANGED <<store, local>>
  /\ IF Truthy(err) THEN Call(<<err>>)
     ELSE LET body == JsonReply(Get(response, "body"))
          IN IF Get(response, "statusCode") # Num(200)
             THEN LET message == handleErrors(body)
                  IN IF message.ok THEN Call(<<message.v>>) ELSE Throw(message.e)
             ELSE Call(<<Null, handleFilterResponse(body)>>)

(* ------------- the variant that special-cases status 401 -------------- *)
variant_CleanSpeak(opts) ==
  Obj(<< <<"host", Get(opts, "host")>>,
         <<"authToken", Get(opts, "authToken")>>,
         <<"databaseUrl", Get(opts, "databaseUrl")>>,
         <<"notificationHost", Get(opts, "notificationHost")>>,
         <<"notificationUsername", Get(opts, "notificationUsername")>>,
         <<"notificationPassword", Get(opts, "notificationPassword")>>,
         <<"pg", Or(Get(opts, "pg"), Obj(<<>>))>> >>)

AuthMessage == S("API token missing or incorrect")

\* the reply as the continuation sees it when the request had the json
\* option: response.body is the decoded body
Decoded(response) ==
  Obj(<< <<"statusCode", Get(response, "statusCode")>>,
         <<"body", JsonReply(Get(response, "body"))>> >>)

variant__convertFilterResponse(body) ==
  Obj(<< <<"filtered", Bool(Truthy(Get(body, "matches")))>>,
         <<"replacement", Get(body, "replacement")>> >>)

\* try { JSON.parse(response.body) ... } catch(e) { 'Received code ...' }
variant__convertErrors(response) ==
  LET jsonData == JSON_parse(Get(response, "body"))
      received_code == Concat(Concat(S("Received code "), Get(response, "statusCode")),
                              S(" from CleanSpeak server"))
      generalErrors == Get(jsonData.v, "generalErrors")
      first == IF generalErrors.t = "arr" /\ Len(generalErrors.a) > 0
               THEN generalErrors.a[1] ELSE Undef
  IN IF ~jsonData.ok \/ ~CanRead(jsonData.v) THEN received_code
     ELSE IF Truthy(generalErrors)
     THEN (IF CanRead(first) THEN Get(first, "message") ELSE received_code)
     ELSE Concat(Concat(received_code, S(": ")), JSON_stringify(jsonData.v))

\* the status 401 handled like every other status
variant_OnResponse_no401(err, response, rest) ==
  IF Truthy(err) THEN Call(<<err>>) /\ UNCHANGED <<store, local>>
  ELSE IF Get(response, "statusCode") # Num(200)
  THEN Call(<<variant__convertErrors(response)>>) /\ UNCHANGED <<store, local>>
  ELSE rest

\* if (err) return callback(err);
\* if (response.statusCode == 401) return callback("API token missing or incorrect");
\* if (response.statusCode !== 200) return callback(that._convertErrors(response));
variant_OnResponse(err, response, rest) ==
  IF Truthy(err) THEN Call(<<err>>) /\ UNCHANGED <<store, local>>
  ELSE IF Get(response, "statusCode") = Num(401)
  THEN Call(<<AuthMessage>>) /\ UNCHANGED <<store, local>>
  ELSE IF Get(response, "statusCode") # Num(200)
  THEN Call(<<variant__convertErrors(response)>>) /\ UNCHANGED <<store, local>>
  ELSE rest

variant_filter(content, opts0) ==
  LET that == variant_CleanSpeak(ctorOpts)
      opts == ResolveOpts(opts0)
      headers == Obj(<< <<"Authentication", Get(that, "authToken")>> >>)
      body == Obj(<< <<"content", content>> >>)
      uri == url_resolve(Get(that, "host"), S("/content/item/filter"))
  IN /\ Begin("variant_filter", content, Undef, opts)
     /\ IF ~uri.ok THEN BeginThrow(TypeError)
        ELSE BeginRequest("POST", uri.v, headers, JSON_stringify(body))

variant_filter_response(err, response) ==
  /\ Resume("variant_filter", err, response)
  /\ variant_OnResponse(err, Decoded(response),
       /\ Call(<<Null, variant__convertFilterResponse(JsonReply(Get(response, "body")))>>)
       /\ UNCHANGED <<store, local>>)

variant_moderate(content, contentId, userId, applicationId, opts0) ==
  LET that == variant_CleanSpeak(ctorOpts)
      opts == ResolveOpts(opts0)
      headers == JsonHeaders
      body == Obj(<< <<"content", Obj(<< <<"applicationId", applicationId>>,
                                        <<"createInstant", Num(now)>>,
                                        <<"parts", content>>,
                                        <<"senderId", userId>> >>)>>,
                     <<"moderation", queueOption(opts)>> >>)
      uri == url_resolve(Get(that, "host"), Concat(S("/content/item/moderate/"), contentId))
  IN /\ Begin("variant_moderate", content, contentId, opts)
     /\ IF ~uri.ok THEN BeginThrow(TypeError)
        ELSE BeginRequest(method(opts), uri.v, headers, JSON_stringify(body))

variant_moderate_response(err, response) ==
  /\ Resume("variant_moderate", err, response)
  /\ variant_OnResponse(err, response, Call(<<Null>>) /\ UNCHANGED <<store, local>>)

variant_createApplication(name, opts0) ==
  LET that == variant_CleanSpeak(ctorOpts)
      opts == ResolveOpts(opts0)
      headers == Obj(<< <<"Authentication", Get(that, "authToken")>> >>)
      body == Obj(<< <<"application",
                       Obj(<< <<"name", name>>,
                              <<"moderationConfiguration",
                                Obj(<< <<"storeContent", Bool(TRUE)>>,
                                       <<"persistent", Bool(TRUE)>> >>)>> >>)>> >>)
      base == url_resolve(Get(that, "host"), S("/system/application"))
  IN /\ Begin("variant_createApplication", name, Undef, opts)
     /\ IF ~base.ok THEN BeginThrow(TypeError)
        ELSE BeginRequest("POST", applicationUri(base.v, opts), headers, JSON_stringify(body))

variant_createApplication_response(err, response) ==
  /\ Resume("variant_createApplication", err, response)
  /\ variant_OnResponse(err, Decoded(response),
       LET body == JsonReply(Get(response, "body"))
       IN IF ~CanRead(Get(body, "application"))
          THEN Throw(TypeError) /\ UNCHANGED <<store, local>>
          ELSE /\ local' = Get(Get(body, "application"), "id")
               /\ Connect)

\* this.pg.connect(this.databaseUrl, function(err, client) { ... }): the
\* continuation is handed no done, and nothing hands the client back
variant__createNotificationServer_connect(err) ==
  LET that == variant_CleanSpeak(ctorOpts)
      uri == url_resolve(Get(that, "notificationHost"), Get(args.opts, "notificationPath"))
  IN /\ ResumeStore("variant_createApplication", "connect", err)
     /\ IF ~uri.ok THEN Throw(TypeError) /\ store' = store
        ELSE IF Truthy(err)
        THEN createApplication_linked(S("error fetching client from pool")) /\ store' = store
        ELSE Query("query1", "INSERT INTO notification_servers",
                   <<uri.v, Get(that, "notificationUsername"), Get(that, "notificationPassword")>>)

variant__createNotificationServer_query1(err, result) ==
  /\ ResumeStore("variant_createApplication", "query1", err)
  /\ IF Truthy(err)
     THEN createApplication_linked(err) /\ store' = store
     ELSE Query("query2", "INSERT INTO notification_servers_applications",
                <<Get(result.a[1], "id"), local>>)

variant__createNotificationServer_query2(err) ==
  /\ ResumeStore("variant_createApplication", "query2", err)
  /\ store' = store
  /\ createApplication_linked(IF Truthy(err) THEN err ELSE Null)

(* --------------------------- environment ------------------------------- *)
\* the id the remote service gives an application created without one
GeneratedId == S("6c1f-generated")

\* texts the remote service may answer with
Bodies ==
  { JSON_stringify(Obj(<< <<"replacement", S("fine")>> >>)),
    JSON_stringify(Obj(<< <<"matches", Arr(<< Obj(<< <<"matched", S("dirty")>> >>) >>)>>,
                          <<"replacement", S("*****")>> >>)),
    JSON_stringify(Obj(<< <<"matches", Arr(<<>>)>>, <<"replacement", S("fine")>> >>)),
    JSON_stringify(Obj(<< <<"generalErrors",
                            Arr(<< Obj(<< <<"code", S("[invalid]")>>,
                                          <<"message", S("Your JSON was invalid")>> >>) >>)>> >>)),
    S("There was a problem, contact Inversoft"),
    EmptyStr,
    Undef }
  \cup { JSON_stringify(Obj(<< <<"application", Obj(<< <<"id", id>> >>)>> >>)) :
           id \in Ids \cup {GeneratedId} }

StatusCodes == {200, 400, 401}

Responses == {Response(sc, b) : sc \in StatusCodes, b \in Bodies}

\* the replies the legacy client's filter is answered with: these have a body
LegacyResponses == {Response(sc, b) : sc \in StatusCodes, b \in Bodies \ {EmptyStr, Undef}}

\* what the side-store answers a query with: (err) or (null, result)
StoreError == Obj(<< <<"code", S("23505")>> >>)
Rows == Arr(<< Obj(<< <<"id", Num(4)>> >>) >>)

\* the clock advances (it is read by the first step of an operation only)
Tick ==
  /\ pc = "idle"
  /\ now < MaxNow
  /\ now' = now + 1
  /\ UNCHANGED <<ctorOpts, self, op, args, pc, requests, callbacks, jobs, store, local, received, thrown>>

\* arguments callers pass
Contents == {S("dirty"), S("fine")}
Parts == { Arr(<< Obj(<< <<"name", S("username")>>, <<"content", S("iamagirl")>>,
                        <<"type", S("text")>> >>) >>) }
Flag == {Absent, Bool(TRUE), Bool(FALSE)}
ModerateOpts ==
  {Fn} \cup
  { Lit(<< <<"contentId", id>>, <<"update", u>>, <<"generatesAlert", g>>,
           <<"requiresApproval", r>> >>) :
      id \in Ids, u \in Flag, g \in Flag, r \in Flag }
FlagOpts ==
  {Fn} \cup
  { Lit(<< <<"reason", r>>, <<"comment", c>> >>) :
      r \in {Absent, S("offensive"), EmptyStr}, c \in {Absent, S("this thing is a jerk!")} }
UserOpts ==
  {Fn} \cup
  { Lit(<< <<"update", u>>, <<"lastLoginInstant", l>>, <<"email", e>> >>) :
      u \in Flag,
      l \in {Absent, Num(0)} \cup {Num(t) : t \in 1..MaxNow} \cup {DateOf(t) : t \in 1..MaxNow},
      e \in {Absent, S("a@example.com"), EmptyStr} }
ApplicationOpts ==
  {Fn} \cup
  { Lit(<< <<"notificationPath", np>>, <<"id", id>>,
           <<"contentDeletable", cd>>, <<"storeContent", sc>>, <<"pork", pk>> >>) :
      np \in {Absent, S("/contests/moderate")}, id \in {Absent} \cup Ids,
      cd \in Flag, sc \in {Absent, Bool(FALSE)}, pk \in {Absent, S("pork")} }
UpdateOpts ==
  {Fn} \cup
  { Lit(<< <<"name", n>>, <<"contentDeletable", cd>>, <<"storeContent", sc>> >>) :
      n \in {Absent, S("app")}, cd \in Flag, sc \in {Absent, Bool(FALSE)} }
VariantModerateOpts ==
  {Fn} \cup
  { Lit(<< <<"update", u>>, <<"generatesAlert", g>> >>) :
      u \in {Absent, Bool(TRUE)}, g \in {Absent, Bool(TRUE)} }
VariantApplicationOpts ==
  {Fn} \cup
  { Lit(<< <<"notificationPath", np>>, <<"id", id>> >>) :
      np \in {Absent, S("/contests/moderate")}, id \in {Absent} \cup Ids }
DeleteOpts == { Lit(<< <<"notificationPath", np>> >>) : np \in {Absent, S("/contests/moderate")} }

Next ==
  \/ Tick
  \/ \E content \in Contents, opts \in {Fn, Obj(<<>>)} : filter(content, opts)
  \/ \E response \in Responses : filter_response(Null, response)
  \/ filter_response(TransportError, Undef)
  \/ \E content \in Parts, opts \in ModerateOpts : moderate(content, opts)
  \/ \E response \in Responses : moderate_response(Null, response)
  \/ moderate_response(TransportError, Undef)
  \/ \E contentId \in Ids, reporterId \in Ids, opts \in FlagOpts : flagContent(contentId, reporterId, opts)
  \/ \E response \in Responses : flagContent_response(Null, response)
  \/ flagContent_response(TransportError, Undef)
  \/ \E userId \in Ids, opts \in UserOpts : addUser(userId, opts)
  \/ \E response \in Responses : addUser_response(Null, response)
  \/ addUser_response(TransportError, Undef)
  \/ \E name \in {S("app")}, opts \in ApplicationOpts : createApplication(name, opts)
  \/ \E response \in Responses : createApplication_response(Null, response)
  \/ createApplication_response(TransportError, Undef)
  \/ \E err \in {Null, StoreError} : _createNotificationServer_connect(err)
  \/ _createNotificationServer_query1(Null, Rows)
  \/ _createNotificationServer_query1(StoreError, Undef)
  \/ \E err \in {Null, StoreError} : _createNotificationServer_query2(err)
  \/ \E id \in Ids, opts \in DeleteOpts : deleteApplication(id, opts)
  \/ \E response \in Responses : deleteApplication_response(Null, response)
  \/ deleteApplication_response(TransportError, Undef)
  \/ \E err \in {Null, StoreError} : _deleteNotificationServer_connect(err)
  \/ \E err \in {Null, StoreError} : _deleteNotificationServer_query(err)
  \/ \E id \in Ids, opts \in UpdateOpts : updateApplication(id, opts)
  \/ \E response \in Responses : updateApplication_response(Null, response)
  \/ updateApplication_response(TransportError, Undef)
  \/ \E content \in Contents, opts \in {Fn, Obj(<<>>)} : legacy_filter(content, opts)
  \/ \E response \in LegacyResponses : legacy_filter_response(Null, response)
  \/ legacy_filter_response(TransportError, Undef)
  \/ \E content \in Contents, opts \in {Fn, Obj(<<>>)} : variant_filter(content, opts)
  \/ \E response \in LegacyResponses : variant_filter_response(Null, response)
  \/ variant_filter_response(TransportError, Undef)
  \/ \E content \in Parts, contentId \in Ids, opts \in VariantModerateOpts :
        variant_moderate(content, contentId, S("user"), S("application"), opts)
  \/ \E response \in Responses : variant_moderate_response(Null, response)
  \/ variant_moderate_response(TransportError, Undef)
  \/ \E name \in {S("app")}, opts \in VariantApplicationOpts : variant_createApplication(name, opts)
  \/ \E response \in LegacyResponses : variant_createApplication_response(Null, response)
  \/ variant_createApplication_response(TransportError, Undef)
  \/ \E err \in {Null, StoreError} : variant__createNotificationServer_connect(err)
  \/ variant__createNotificationServer_query1(Null, Rows)
  \/ variant__createNotificationServer_query1(StoreError, Undef)
  \/ \E err \in {Null, StoreError} : variant__createNotificationServer_query2(err)

Spec == Init /\ [][Next]_vars

(* =============================== claims ================================ *)
QueueConfigured == Has(ctorOpts, "queue")
EnabledIsFalse == Get(self, "enabled") = Bool(FALSE)
NoIO == requests = <<>> /\ store = <<>> /\ jobs = <<>>

\* C1: on a client whose enabled flag is false, filter(content) calls back
\* with (null, {filtered: false, replacement: content}), exactly the content
\* it was given, and sends no HTTP request.
C1_FilterDisabledIsIdentity ==
  (op = "filter" /\ EnabledIsFalse) =>
    /\ callbacks = << <<Null, Obj(<< <<"filtered", Bool(FALSE)>>,
                                    <<"replacement", args.a>> >>)>> >>
    /\ requests = <<>>
    /\ thrown = Undef

C1_Witness ==
  /\ op = "filter" /\ EnabledIsFalse /\ args.a = S("dirty")
  /\ Len(callbacks) = 1 /\ Get(callbacks[1][2], "replacement") = S("dirty")

GatedOps == {"moderate", "flagContent", "addUser", "createApplication", "updateApplication"}

\* C2: on a client whose enabled flag is false, moderate, flagContent,
\* addUser, createApplication and updateApplication each call back once with
\* (null) - no error, no result - and make no HTTP request, no side-store
\* call and no enqueue, whether or not a queue was configured.
C2_DisabledIsNoOp ==
  (op \in GatedOps /\ EnabledIsFalse) =>
    /\ callbacks = << <<Null>> >>
    /\ NoIO
    /\ pc = "done"
    /\ thrown = Undef

C2_Witness ==
  /\ op = "moderate" /\ EnabledIsFalse /\ QueueConfigured
  /\ callbacks = << <<Null>> >> /\ NoIO

Enabled == Truthy(Get(self, "enabled"))
Job(name, data) == [name |-> name, data |-> data]

\* C3: with a queue configured at construction and the client enabled,
\* moderate(parts, opts) sends no HTTP request, hands the queue exactly one
\* job "moderate" with payload {content: parts, opts: opts}, and has not
\* called back while the save step is pending.
C3_QueuedModerateEnqueues ==
  (op = "moderate" /\ QueueConfigured /\ Enabled) =>
    /\ requests = <<>>
    /\ jobs = <<Job("moderate", Obj(<< <<"content", args.a>>, <<"opts", args.opts>> >>))>>
    /\ (pc = "save" => callbacks = <<>>)

\* C4: with a queue configured and the client enabled, flagContent(contentId,
\* reporterId, opts) sends no HTTP request and hands the queue one job
\* "flagContent" with payload {contentId, reporterId, opts}.
C4_QueuedFlagContentEnqueues ==
  (op = "flagContent" /\ QueueConfigured /\ Enabled) =>
    /\ requests = <<>>
    /\ jobs = <<Job("flagContent", Obj(<< <<"contentId", args.a>>, <<"reporterId", args.b>>,
                                         <<"opts", args.opts>> >>))>>

\* C5: with a queue configured and the client enabled, addUser(userId, opts)
\* sends no HTTP request and creates the queue job ('addUser', {userId,
\* opts}), calling back only once the job is saved.
C5_QueuedAddUserEnqueues ==
  (op = "addUser" /\ QueueConfigured /\ Enabled) =>
    /\ requests = <<>>
    /\ jobs = <<Job("addUser", Obj(<< <<"userId", args.a>>, <<"opts", args.opts>> >>))>>
    /\ (pc = "save" => callbacks = <<>>)

\* C6: a client constructed with a queue holds queue options: attempts 5 and
\* priority "normal" when none were given, the given ones otherwise.
C6_QueueOptionDefaults ==
  QueueConfigured =>
    LET given == Get(ctorOpts, "queueOpts")
        held == Get(self, "queueOpts")
    IN IF given = Undef
       THEN Get(held, "attempts") = Num(5) /\ Get(held, "priority") = S("normal")
       ELSE /\ Get(held, "attempts") = Get(given, "attempts")
            /\ Get(held, "priority") = Get(given, "priority")

\* the body of the call's HTTP request, decoded
SentBody == JSON_parse(requests[1].body).v

\* C7: the body of a moderate request carries moderation = "generatesAlert"
\* when opts.generatesAlert is truthy (whatever requiresApproval is),
\* else "requiresApproval" when opts.requiresApproval is truthy, else null.
C7_ModerationTag ==
  (op = "moderate" /\ Enabled /\ ~Truthy(Get(self, "ironClient"))) =>
    /\ Len(requests) = 1
    /\ Has(SentBody, "moderation")
    /\ Get(SentBody, "moderation") =
         (IF Truthy(Get(args.opts, "generatesAlert")) THEN S("generatesAlert")
          ELSE IF Truthy(Get(args.opts, "requiresApproval")) THEN S("requiresApproval")
          ELSE Null)

C7_Witness ==
  /\ op = "moderate" /\ Len(requests) = 1
  /\ Get(args.opts, "generatesAlert") = Bool(TRUE)
  /\ Get(args.opts, "requiresApproval") = Bool(TRUE)
  /\ Get(SentBody, "moderation") = S("generatesAlert")

\* C8: moderate and addUser send their request with method PUT exactly when
\* opts.update is truthy, POST otherwise (also when opts is left out), to
\* /content/item/moderate/{contentId} and /content/user/{userId}.
C8_UpdateSelectsPut ==
  (op \in {"moderate", "addUser"} /\ Enabled /\ ~Truthy(Get(self, "ironClient"))) =>
    /\ Len(requests) = 1
    /\ requests[1].method = (IF Truthy(Get(args.opts, "update")) THEN "PUT" ELSE "POST")
    /\ requests[1].uri =
         (IF op = "moderate"
          THEN Str(Host.s \o <<C("/content/item/moderate/")>> \o ToStr(Get(args.opts, "contentId")))
          ELSE Str(Host.s \o <<C("/content/user/")>> \o ToStr(args.a)))

C8_Witness ==
  /\ op = "addUser" /\ Len(requests) = 1
  /\ Get(args.opts, "update") = Bool(TRUE)
  /\ requests[1].method = "PUT"

\* the reply the continuation received had this status
Replied == received.err = Null /\ received.response # Undef
Status == Get(received.response, "statusCode")
ReplyBody == Get(received.response, "body")

\* C9: for a 200 reply to filter whose body decodes to an object, the result
\* is {filtered: false, replacement: body.replacement} when the body has no
\* matches field, {filtered: true, replacement: body.replacement} when it has
\* a non-empty matches list, and the replacement is the body's in every case.
C9_FilterResult ==
  (op = "filter" /\ pc = "done" /\ Replied /\ Status = Num(200)
     /\ JSON_parse(ReplyBody).ok /\ JSON_parse(ReplyBody).v.t = "obj") =>
    LET d == JSON_parse(ReplyBody).v
        matches == Get(d, "matches")
        Result(f) == Obj(<< <<"filtered", Bool(f)>>, <<"replacement", Get(d, "replacement")>> >>)
    IN /\ Len(callbacks) = 1 /\ Len(callbacks[1]) = 2 /\ callbacks[1][1] = Null
       /\ Get(callbacks[1][2], "replacement") = Get(d, "replacement")
       /\ (~Has(d, "matches") => callbacks[1][2] = Result(FALSE))
       /\ ((matches.t = "arr" /\ matches.a # <<>>) => callbacks[1][2] = Result(TRUE))

C9_Witness ==
  /\ op = "filter" /\ pc = "done" /\ Replied /\ Status = Num(200)
  /\ Len(callbacks) = 1 /\ Len(callbacks[1]) = 2
  /\ callbacks[1][2] = Obj(<< <<"filtered", Bool(TRUE)>>, <<"replacement", S("*****")>> >>)

\* C10: after a reply whose status is not 200 the callback's error is the
\* structure {statusCode, message}: statusCode the reply's status, message
\* the decoded body when the body is JSON and the raw body text otherwise.
\* (Stated for the operations whose continuation normalizes the error.)
C10_ErrorIsStructure ==
  (op \in {"filter", "moderate", "flagContent", "createApplication", "deleteApplication",
           "updateApplication"}
     /\ pc = "done" /\ Replied /\ Status # Num(200)) =>
    /\ Len(callbacks) = 1
    /\ callbacks[1][1].t = "obj"
    /\ Get(callbacks[1][1], "statusCode") = Status
    /\ Get(callbacks[1][1], "message") =
         (IF JSON_parse(ReplyBody).ok THEN JSON_parse(ReplyBody).v ELSE ReplyBody)

PublicOps == GatedOps \cup {"filter", "deleteApplication"}

\* C11: whichever public operation it is, after a reply whose status is not
\* 200 the callback has been handed an error: success is never reported.
C11_Non200IsAnError ==
  (op \in PublicOps /\ pc = "done" /\ Replied /\ Status # Num(200)) =>
    /\ Len(callbacks) = 1
    /\ Truthy(callbacks[1][1])

\* C12: whatever status and body the remote service answers with, no
\* exception escapes the continuation of the request: the outcome is
\* delivered through the callback.
C12_NoFaultOnAnyReply ==
  (op \in PublicOps /\ Replied /\ store = <<>>) => thrown = Undef

\* C13: when the call has run to its end, with every collaborator having
\* answered once, the caller's callback has been invoked exactly once.
C13_CallbackExactlyOnce ==
  (op \in PublicOps /\ pc = "done") => Len(callbacks) = 1

\* what the side-store events of the call are, in order
StoreEvents == [i \in 1..Len(store) |-> store[i].ev]
LinkFailed == Truthy(received.storeErr)

C15_CreateUriAndId ==
  (op = "createApplication" /\ Enabled) =>
    /\ Len(requests) = 1
    /\ requests[1].method = "POST"
    /\ requests[1].uri =
         (IF Has(args.opts, "id")
          THEN Str(Host.s \o <<C("/system/application")>> \o <<C("/")>> \o Get(args.opts, "id").s)
          ELSE Str(Host.s \o <<C("/system/application")>>))
    /\ \A i \in 1..Len(callbacks) :
         Len(callbacks[i]) = 2 =>
           Get(callbacks[i][2], "id") = Get(Get(JSON_parse(ReplyBody).v, "application"), "id")

C15_Witness ==
  /\ op = "createApplication" /\ pc = "done"
  /\ Has(args.opts, "id") /\ Get(args.opts, "id") # GeneratedId
  /\ callbacks = << <<Null, Obj(<< <<"id", GeneratedId>> >>)>> >>

Recognized == {ModerationKeys[i] : i \in 1..Len(ModerationKeys)}
ModerationConfiguration == Get(Get(SentBody, "application"), "moderationConfiguration")

\* C16: the moderationConfiguration createApplication sends holds each of the
\* six recognized keys the caller supplied, with the supplied value (true or
\* false), holds none of those the caller left out, and holds no other key.
C16_ModerationConfiguration ==
  (op = "createApplication" /\ Len(requests) = 1) =>
    /\ ModerationConfiguration.t = "obj"
    /\ \A k \in Recognized :
         /\ Has(ModerationConfiguration, k) <=> Has(args.opts, k)
         /\ Has(args.opts, k) => Get(ModerationConfiguration, k) = Get(args.opts, k)
    /\ \A i \in 1..Len(ModerationConfiguration.f) : ModerationConfiguration.f[i][1] \in Recognized

C16_Witness ==
  /\ op = "createApplication" /\ Len(requests) = 1
  /\ Get(args.opts, "contentDeletable") = Bool(TRUE)
  /\ Get(args.opts, "storeContent") = Bool(FALSE)
  /\ Has(args.opts, "pork")
  /\ ModerationConfiguration = Obj(<< <<"contentDeletable", Bool(TRUE)>>,
                                      <<"storeContent", Bool(FALSE)>> >>)

\* C17: updateApplication(id, {name}) with none of the moderation keys issues
\* one PUT to /system/application/{id} whose body is {application: {name:
\* name}} and nothing more, and leaves the side-store alone.
C17_UpdateNameOnly ==
  (/\ op = "updateApplication" /\ Enabled
   /\ Has(args.opts, "name")
   /\ \A k \in Recognized : ~Has(args.opts, k)) =>
    /\ Len(requests) = 1
    /\ requests[1].method = "PUT"
    /\ requests[1].uri = Str(Host.s \o <<C("/system/application/")>> \o args.a.s)
    /\ SentBody = Obj(<< <<"application", Obj(<< <<"name", Get(args.opts, "name")>> >>)>> >>)
    /\ store = <<>>

\* C18: on an enabled client, deleteApplication(id, options) whose options
\* have no notificationPath calls back once with an error and has done no
\* I/O: no request, no side-store access.
C18_DeleteValidates ==
  (op = "deleteApplication" /\ Enabled /\ ~Has(args.opts, "notificationPath")) =>
    /\ pc = "done"
    /\ Len(callbacks) = 1
    /\ Len(callbacks[1]) = 1
    /\ Truthy(callbacks[1][1])
    /\ NoIO

C18_Witness ==
  /\ op = "deleteApplication" /\ Enabled
  /\ ~Has(args.opts, "notificationPath")
  /\ callbacks = << <<S("notificationPath is required")>> >>
  /\ requests = <<>>

\* C19: deleteApplication touches the side-store only after its DELETE was
\* answered with status 200 (never after a transport error or another
\* status), and on an enabled client it reports success only after the
\* deletion of the link went through.
C19_UnlinkAfterDelete ==
  op = "deleteApplication" =>
    /\ store # <<>> =>
         /\ Replied /\ Status = Num(200)
         /\ Len(requests) = 1 /\ requests[1].method = "DELETE"
    /\ (Enabled /\ callbacks = << <<Null>> >>) =>
         /\ StoreEvents = <<"connect", "query", "done">>
         /\ ~LinkFailed

C19_Witness ==
  /\ op = "deleteApplication" /\ Enabled
  /\ callbacks = << <<Null>> >>
  /\ StoreEvents = <<"connect", "query", "done">>
  /\ Status = Num(200)

\* C20: every HTTP request that was issued, by the operations of the client
\* and of its legacy variant alike, carries an Authentication header whose
\* value is the authToken the client was constructed with.
C20_EveryRequestAuthenticated ==
  \A i \in 1..Len(requests) :
    /\ Has(requests[i].headers, "Authentication")
    /\ Get(requests[i].headers, "Authentication") = AuthToken

\* C21: a call of a public operation sends at most one HTTP request and
\* hands at most one job to the queue, never both, and on a disabled client
\* it sends no request and hands over no job.
C21_AtMostOneRequest ==
  /\ Len(requests) <= 1
  /\ Len(jobs) <= 1
  /\ ~(requests # <<>> /\ jobs # <<>>)
  /\ (op \in PublicOps /\ ~Enabled) => (requests = <<>> /\ jobs = <<>>)

C21_Witness ==
  /\ op = "createApplication" /\ pc = "done"
  /\ StoreEvents = <<"connect", "query", "query", "done">>
  /\ Len(requests) = 1 /\ jobs = <<>>

\* the payload addUser builds when handed these options at this instant
Payload(opts) == JSON_stringify(userBody(lastLoginInstant(opts), Num(now)))
LastLogin == Get(args.opts, "lastLoginInstant")

UserFields ==
  {"applicationIds", "attributes", "displayNames", "birthDate", "email",
   "lastLoginInstant", "name", "imageURL"}
SentUser == Get(SentBody, "user")

\* C23: the user object addUser sends holds each recognized field the caller
\* supplied, with the supplied value whatever it is, holds createInstant, and
\* holds nothing else: a field that was not supplied is absent.
C23_UserFields ==
  (op = "addUser" /\ Len(requests) = 1) =>
    /\ SentUser.t = "obj"
    /\ Get(SentUser, "createInstant") = Num(now)
    /\ \A k \in UserFields :
         /\ Has(SentUser, k) <=> Has(args.opts, k)
         /\ Has(args.opts, k) => Get(SentUser, k) = Get(args.opts, k)
    /\ \A i \in 1..Len(SentUser.f) : SentUser.f[i][1] \in UserFields \cup {"createInstant"}

SentFlag == Get(SentBody, "flag")

\* C24 as stated: the flag flagContent sends holds reason (comment) exactly
\* when the options of the call hold one.
C24_AsStated ==
  (op = "flagContent" /\ Len(requests) = 1) =>
    \A k \in {"reason", "comment"} : Has(SentFlag, k) <=> Has(args.opts, k)

\* C24: the flag flagContent sends always holds the reporterId and the
\* createInstant of the call; it holds reason (comment) exactly when the
\* caller supplied one that is not empty, with the supplied text; what is left
\* out is absent, never null, and the flag holds nothing else.
C24_FlagBody ==
  (op = "flagContent" /\ Len(requests) = 1) =>
    /\ SentFlag.t = "obj"
    /\ Get(SentFlag, "reporterId") = args.b
    /\ Get(SentFlag, "createInstant") = Num(now)
    /\ \A k \in {"reason", "comment"} :
         /\ Has(SentFlag, k) <=> Truthy(Get(args.opts, k))
         /\ Has(SentFlag, k) => Get(SentFlag, k) = Get(args.opts, k)
    /\ \A i \in 1..Len(SentFlag.f) :
         SentFlag.f[i][1] \in {"reporterId", "createInstant", "reason", "comment"}

C24_Witness ==
  /\ op = "flagContent" /\ Len(requests) = 1
  /\ Get(args.opts, "reason") = S("offensive")
  /\ ~Has(args.opts, "comment")
  /\ SentFlag = Obj(<< <<"reporterId", args.b>>, <<"createInstant", Num(now)>>,
                       <<"reason", S("offensive")>> >>)

\* the operations whose continuation normalizes a reply that is not a 200
NormalizingOps == PublicOps \ {"addUser"}

\* C25: whatever the status and whatever the body of a reply that is not a
\* 200 (JSON, text that is not JSON, an empty body, no body at all), the
\* normalization returns a value, the text of {statusCode, message}, and
\* raises nothing.
C25_NormalizationIsTotal ==
  (op \in NormalizingOps /\ pc = "done" /\ Replied /\ Status # Num(200)) =>
    /\ thrown = Undef
    /\ Len(callbacks) = 1
    /\ callbacks[1][1].t = "str"
    /\ JSON_parse(callbacks[1][1]).ok
    /\ Get(JSON_parse(callbacks[1][1]).v, "statusCode") = Status

C25_Witness ==
  /\ op \in NormalizingOps /\ pc = "done" /\ Replied
  /\ Status = Num(400)
  /\ ReplyBody = Undef
  /\ callbacks = << <<JSON_stringify(Obj(<< <<"statusCode", Num(400)>> >>))>> >>

\* C26: when the transport hands an error to the continuation, the callback
\* is called once with that very value and nothing else, and the call goes
\* no further: no side-store access, no second request.
C26_TransportErrorVerbatim ==
  (pc = "done" /\ Truthy(received.err)) =>
    /\ callbacks = << <<received.err>> >>
    /\ thrown = Undef
    /\ store = <<>>
    /\ Len(requests) = 1

C26_Witness ==
  /\ op = "deleteApplication" /\ pc = "done"
  /\ received.err = TransportError
  /\ callbacks = << <<TransportError>> >>
  /\ store = <<>>

\* C27: a client constructed without the enabled option is enabled (true),
\* and one constructed with enabled: false has enabled = false.
C27_EnabledDefault ==
  /\ ~Has(ctorOpts, "enabled") => Get(self, "enabled") = Bool(TRUE)
  /\ Get(ctorOpts, "enabled") = Bool(FALSE) => Get(self, "enabled") = Bool(FALSE)

C27_Witness ==
  /\ ~Has(ctorOpts, "enabled")
  /\ Get(self, "enabled") = Bool(TRUE)
  /\ op = "filter" /\ Len(requests) = 1

\* the connect continuation was handed a client: a query was run on it, or
\* the continuation that ran last is the one of connect and it got no error
Acquired ==
  /\ store # <<>>
  /\ \/ Len(store) > 1
     \/ pc # "connect" /\ received.storeErr = Null

\* C28: in the helpers that link and unlink the notification server, of the
\* client and of its variant alike, once pg.connect has handed over a
\* connection, the connection has been released (done()) by the time the
\* callback is invoked, whichever path led there.
C28_ConnectionReleased ==
  (Acquired /\ callbacks # <<>>) => store[Len(store)].ev = "done"

ReplyMatches == Get(JSON_parse(ReplyBody).v, "matches")

\* C29: a 200 reply to filter whose decoded body has an empty matches list
\* gives filtered = false; filtered is true only when the list of matches is
\* not empty.
C29_EmptyMatchesNotFiltered ==
  (/\ op = "filter" /\ pc = "done" /\ Replied /\ Status = Num(200)
   /\ JSON_parse(ReplyBody).ok) =>
    /\ ReplyMatches = Arr(<<>>) =>
         /\ Len(callbacks) = 1 /\ Len(callbacks[1]) = 2
         /\ Get(callbacks[1][2], "filtered") = Bool(FALSE)
    /\ \A i \in 1..Len(callbacks) :
         (Len(callbacks[i]) = 2 /\ Get(callbacks[i][2], "filtered") = Bool(TRUE)) =>
           (ReplyMatches.t = "arr" /\ ReplyMatches.a # <<>>)

VariantOps == {"variant_filter", "variant_moderate", "variant_createApplication"}
\* the reply as the continuation of the variant's operation sees it
SeenReply == IF op = "variant_moderate" THEN received.response ELSE Decoded(received.response)

\* C30: in the variant that special-cases authentication failures, a reply
\* with status 401 to filter, moderate or createApplication ends in the one
\* message "API token missing or incorrect", whatever its body; a reply with
\* any other status that is not 200 ends in what _convertErrors makes of it.
C30_AuthFailureMessage ==
  (op \in VariantOps /\ pc = "done" /\ Replied /\ Status # Num(200)) =>
    /\ Len(callbacks) = 1 /\ Len(callbacks[1]) = 1
    /\ thrown = Undef /\ store = <<>>
    /\ Status = Num(401) => callbacks[1][1] = AuthMessage
    /\ Status # Num(401) =>
         /\ callbacks[1][1] = variant__convertErrors(SeenReply)
         /\ callbacks[1][1] # AuthMessage

C30_Witness ==
  /\ op = "variant_createApplication" /\ pc = "done" /\ Replied
  /\ Status = Num(401)
  /\ JSON_parse(ReplyBody).ok /\ Has(JSON_parse(ReplyBody).v, "generalErrors")
  /\ callbacks = << <<AuthMessage>> >>
====
